---- MODULE Spec2Model ----
(***************************************************************************)
(* Model of the TOEFL speaking evaluator scripts:                          *)
(*   EvaluationEngine.py   evaluation of the student responses of a task   *)
(*   FeedbackFormatter.py  feedback parsing, report rows, diff input       *)
(*   ScoreCalculator.py    score parsing, aggregation, scale conversion    *)
(*   ShadowingAudioGen.py  extraction of the revised text for speech       *)
(*                                                                         *)
(* Numbers.  A score printed as "d.d" is held in tenths (3.5 -> 35).  An   *)
(* overall score (lu + td) / 2.0 and a raw total are held in twentieths    *)
(* (2.5 -> 50).  A scaled score is held in halves (12.0 -> 24, 8.5 -> 17), *)
(* because the interpolation averages two integer table entries.           *)
(*                                                                         *)
(* Text.  A text is a sequence of tokens.  The tokens the regular          *)
(* expressions look at are kept character by character (space, newline,    *)
(* digits, the decimal point, the double quote); a bolded label is one     *)
(* token, and any other token is an opaque run of other characters.        *)
(*                                                                         *)
(* Specifications.                                                         *)
(*   SpecConvert    convert_raw_to_toefl called on one raw score            *)
(*   SpecEvaluate   evaluate_student_response called on one set of         *)
(*                  arguments                                              *)
(*   Spec           one task: grade_task writes the responses file of      *)
(*                  several students, then one consumer script reads it    *)
(*   SpecParse      the same steps for one student, over every shape of    *)
(*                  answer the service may give                            *)
(*   SpecGrade      grade_task on its own: some of the task's files may    *)
(*                  be missing and a responses file may be there already   *)
(*   SpecAggregate  ScoreCalculator.main: the four task files are read,    *)
(*                  the totals converted and the roster saved              *)
(*   SpecOrder      calculate_total_raw_and_toefl_scores called on the     *)
(*                  task files in two orders, on floats                    *)
(*   SpecDiff       highlight_differences called on one pair of texts      *)
(*   SpecMain       main of EvaluationEngine, FeedbackFormatter or         *)
(*                  ShadowingAudioGen: the loop over the lines typed       *)
(*   SpecMarkdown   main of mdMaker: the tasks detected, processed and     *)
(*                  summarised                                             *)
(*                                                                         *)
(* Floats.  The sums in twentieths are exact.  SpecOrder computes the same *)
(* sums on doubles, with the rounding of every addition.                   *)
(*                                                                         *)
(* The Redlines library is not part of the sources: its diff is taken to   *)
(* be the word-level diff that the specification of the renderer           *)
(* describes.                                                              *)
(***************************************************************************)
EXTENDS Integers, Sequences, FiniteSets, TLC

VARIABLES
    \* ---- ScoreCalculator.convert_raw_to_toefl, called on its own
    raw_score,          \* the argument
    toefl_score,        \* the value returned
    conv_pc,            \* "call" before the call, "returned" after it
    \* ---- EvaluationEngine.evaluate_student_response, called on its own
    ev_args,            \* the arguments of the call
    ev_result,          \* the text returned
    ev_pc,              \* "call", "returned", or "raised" when the service failed
    \* ---- the text-generation service
    service,            \* the texts the service may answer with
    requests,           \* the prompts sent to the service so far
    \* ---- one task: its student files and its responses file
    script,             \* the script launched on the responses file once it is graded
    task_number,        \* the task selected at the prompt, 1..4
    task_files,         \* which of the question, reading and listening files exist
    student_files,      \* glob result: sequence of [path, content]
    responses_file,     \* task{N}_responses.json: [exists, entries]
    eng_log,            \* the messages grade_task printed
    eng_pc,             \* EvaluationEngine: "prompt", "done" or "crashed"
    \* ---- FeedbackFormatter.process_responses
    df,                 \* the rows of the report
    highlighted_changes,\* (student, original cleaned, revised cleaned) given to Redlines
    fmt_log,            \* the messages printed about skipped students and files
    fmt_saved,          \* TRUE once the xlsx, csv and html files are written
    fmt_pc,             \* "prompt" or "done"
    \* ---- ShadowingAudioGen.process_responses
    audio_requests,     \* (student, voice, text) sent to speech synthesis
    shadow_log,         \* students skipped, with the reason
    shadow_pc,          \* "prompt" or "done"
    \* ---- ScoreCalculator, over the task files
    task_scores,        \* read_scores_from_json of the task file last read
    next_task,          \* index of the next task file to read, 1..4, then 5
    written,            \* student -> task -> the overall score put in the file read
    total_scores,       \* student -> sequence of overall scores
    raw_scores,         \* student -> raw total
    toefl_scores,       \* student -> scaled score or None
    agg_log,            \* students reported as lacking a score
    roster,             \* Student_TOEFL_Scores.csv and .xlsx: [exists, entries]
    agg_pc,             \* "reading", "read", "calculated", "saved" or "crashed"
    \* ---- FeedbackFormatter.highlight_differences, called on its own
    original,           \* the first argument
    revised,            \* the second argument
    cleaned,            \* original_clean and revised_clean
    highlighted,        \* the words the diff marks as deleted and as inserted
    diff_pc,            \* "call" before the call, "returned" after it
    \* ---- the main loop of an interactive script
    stdin,              \* the lines typed that input() has not read yet
    consumed,           \* the lines input() has returned
    handled,            \* the calls of the task handler: [task, raised, calls]
    disk,               \* task -> task{N}_responses.json
    main_pc,            \* "prompt", "exited" or "crashed"
    \* ---- calculate_total_raw_and_toefl_scores, called on two orderings
    py_build,           \* the summation of the interpreter's sum(): "plain" or "compensated"
    given_files,        \* the task files, each a sequence of student records
    other_files,        \* the same files and records in another order
    given_scores,       \* (raw_scores, toefl_scores) of given_files
    other_scores,       \* (raw_scores, toefl_scores) of other_files
    order_pc,           \* "call", "first" or "both"
    \* ---- mdMaker.main
    md_files,           \* task -> the question, reading and listening files on disk
    init_vars,          \* the TPO number and the class name typed
    available_tasks,    \* the tasks with every required file
    missing_files_report,\* task -> the required files it lacks
    md_next,            \* index in available_tasks of the next task to process
    processed_tasks,    \* the tasks whose markdown file was saved
    errors,             \* task -> why it was not processed
    md_saved,           \* the tasks whose markdown file is on disk
    summary,            \* what generate_summary printed: [printed, success, errors]
    md_pc               \* "start", "detect", "process", "done" or "exited"

convVars == <<raw_score, toefl_score, conv_pc>>
evalVars == <<ev_args, ev_result, ev_pc>>
taskVars == <<script, task_number, task_files, student_files, responses_file, eng_log,
              eng_pc>>
fmtVars == <<df, highlighted_changes, fmt_log, fmt_saved, fmt_pc>>
shadowVars == <<audio_requests, shadow_log, shadow_pc>>
aggVars == <<task_scores, next_task, written, total_scores, raw_scores, toefl_scores,
             agg_log, roster, agg_pc>>
diffVars == <<original, revised, cleaned, highlighted, diff_pc>>
mainVars == <<stdin, consumed, handled, disk, main_pc>>
mdVars == <<md_files, init_vars, available_tasks, missing_files_report, md_next,
            processed_tasks, errors, md_saved, summary, md_pc>>
orderVars == <<py_build, given_files, other_files, given_scores, other_scores, order_pc>>
vars == <<convVars, evalVars, service, requests, taskVars, fmtVars, shadowVars, aggVars,
          diffVars, mainVars, mdVars, orderVars>>

(***************************************************************************)
(* Units and bounds                                                        *)
(***************************************************************************)
\* one digit after the decimal point in the pattern (\d\.\d)
Tenth == 10
\* the divisor of (language_use_score + topic_development_score) / 2.0
Half == 2
\* raw scores are counted in twentieths of a point
RawUnit == Tenth * Half
\* the task files task1_responses.json .. task4_responses.json
NumTasks == 4

\* how far below 0 and above the last table key the raw scores tried reach
RawBelow == 2
RawAbove == 2
\* the most student files a task directory holds
MaxFiles == 2

Min(S) == CHOOSE x \in S : \A y \in S : x <= y
Max(S) == CHOOSE x \in S : \A y \in S : x >= y

(***************************************************************************)
(* Text                                                                    *)
(***************************************************************************)
LU == "**Score for Language Use:**"
TD == "**Score for Topic Development:**"
FB == "**Feedback:**"
RV == "**Revised Version:**"
QUOTE == "\""

\* the characters \s and str.strip() take for whitespace
Whitespace == {" ", "\n"}
Digits == {"0", "1", "2", "3", "4", "5", "6", "7", "8", "9"}
DigitVal ==
    [c \in Digits |->
        CASE c = "0" -> 0 [] c = "1" -> 1 [] c = "2" -> 2 [] c = "3" -> 3 [] c = "4" -> 4
          [] c = "5" -> 5 [] c = "6" -> 6 [] c = "7" -> 7 [] c = "8" -> 8 [] c = "9" -> 9]

\* an optional text: Python's None, or a string
NoText == [some |-> FALSE, text |-> <<>>]
Some(t) == [some |-> TRUE, text |-> t]

\* s with the leading and trailing tokens of the set chars removed
StripChars(s, chars) ==
    LET keep == {i \in 1..Len(s) : s[i] \notin chars}
    IN IF keep = {} THEN <<>> ELSE SubSeq(s, Min(keep), Max(keep))

\* str.strip()
strip(s) == StripChars(s, Whitespace)

\* s with its leading whitespace removed: what a greedy \s* consumes
SkipWhitespace(s) ==
    LET keep == {i \in 1..Len(s) : s[i] \notin Whitespace}
    IN IF keep = {} THEN <<>> ELSE SubSeq(s, Min(keep), Len(s))

\* float("d.d"), in tenths
float(group) == DigitVal[group[1]] * Tenth + DigitVal[group[3]]

\* a match object, or no match
NoMatch == [matched |-> FALSE, group |-> <<>>]
Match(g) == [matched |-> TRUE, group |-> g]

\* label followed by one space, a digit, a point and a digit, at position i
ScoreAt(label, text, i) ==
    /\ i + 4 <= Len(text)
    /\ text[i] = label
    /\ text[i + 1] = " "
    /\ text[i + 2] \in Digits
    /\ text[i + 3] = "."
    /\ text[i + 4] \in Digits

\* re.search(r"<label> (\d\.\d)", text): the leftmost match
search_score(label, text) ==
    LET hits == {i \in 1..Len(text) : ScoreAt(label, text, i)}
    IN IF hits = {} THEN NoMatch
       ELSE Match(SubSeq(text, Min(hits) + 2, Min(hits) + 4))

\* a mutant: (.*) without re.DOTALL stops at the first newline
search_revised_one_line(text) ==
    LET hits == {i \in 1..Len(text) : text[i] = RV}
    IN IF hits = {} THEN NoMatch
       ELSE LET rest == SkipWhitespace(SubSeq(text, Min(hits) + 1, Len(text)))
                nl == {i \in 1..Len(rest) : rest[i] = "\n"}
            IN Match(IF nl = {} THEN rest ELSE SubSeq(rest, 1, Min(nl) - 1))

\* re.search(r"\*\*Revised Version:\*\*\s*(.*)", text, re.DOTALL)
search_revised(text) ==
    LET hits == {i \in 1..Len(text) : text[i] = RV}
    IN IF hits = {} THEN NoMatch
       ELSE Match(SkipWhitespace(SubSeq(text, Min(hits) + 1, Len(text))))

\* FeedbackFormatter.clean_text: strip, then re.sub(r'^"+|"+$', '', text)
\* a text without its first token if that is a double quote, then without its
\* last token if that is one
StripOneQuote(s) ==
    LET t == IF s # <<>> /\ Head(s) = QUOTE THEN Tail(s) ELSE s
    IN IF t # <<>> /\ t[Len(t)] = QUOTE THEN SubSeq(t, 1, Len(t) - 1) ELSE t

\* a mutant: the pattern ^"|"$, one double quote at each end
clean_text_one_layer(text) == StripOneQuote(strip(text))

\* text.strip(), then re.sub(r'^"+|"+$', '', text)
clean_text(text) == StripChars(strip(text), {QUOTE})

(***************************************************************************)
(* Python floats.  A float is an IEEE 754 double.  The doubles met here    *)
(* are below 64 and are whole multiples of 2^-57, so a double is held as   *)
(* a sign and a magnitude counted in units of 2^-57, the magnitude in      *)
(* three limbs <<high, middle, low>> of LimbBits bits, the high limb       *)
(* unbounded.  Every operation computes the exact result and rounds it to  *)
(* Mantissa significant bits, ties to even.                                *)
(***************************************************************************)
\* the significand of a double, the hidden bit included
Mantissa == 53
\* the magnitudes count units of 2^-FracBits
FracBits == 57
LimbBits == 21
LimbBase == 2^LimbBits
\* the high limb of 1.0
HighOne == 2^(FracBits - 2 * LimbBits)

Double(neg, mag) == [neg |-> neg, m |-> mag]
Zero == Double(FALSE, <<0, 0, 0>>)

MagAdd(a, b) ==
    LET s0 == a[3] + b[3]
        s1 == a[2] + b[2] + (s0 \div LimbBase)
    IN <<a[1] + b[1] + (s1 \div LimbBase), s1 % LimbBase, s0 % LimbBase>>

\* a - b for a >= b
MagSub(a, b) ==
    LET d0 == a[3] - b[3]
        b0 == IF d0 < 0 THEN 1 ELSE 0
        d1 == a[2] - b[2] - b0
        b1 == IF d1 < 0 THEN 1 ELSE 0
    IN <<a[1] - b[1] - b1, d1 + b1 * LimbBase, d0 + b0 * LimbBase>>

MagLess(a, b) ==
    \/ a[1] < b[1]
    \/ a[1] = b[1] /\ a[2] < b[2]
    \/ a[1] = b[1] /\ a[2] = b[2] /\ a[3] < b[3]

RECURSIVE BitLen(_)
BitLen(n) == IF n = 0 THEN 0 ELSE 1 + BitLen(n \div 2)

MagBitLen(a) ==
    IF a[1] > 0 THEN 2 * LimbBits + BitLen(a[1])
    ELSE IF a[2] > 0 THEN LimbBits + BitLen(a[2]) ELSE BitLen(a[3])

\* the exact magnitude a, plus a nonzero fraction of a unit when sticky,
\* rounded to Mantissa significant bits, ties to even
Round(a, sticky) ==
    LET k == MagBitLen(a) - Mantissa
    IN IF k <= 0 THEN a
       ELSE LET unit == 2^k
                r == a[3] % unit
                odd == (a[3] \div unit) % 2 = 1
                up == \/ 2 * r > unit
                      \/ 2 * r = unit /\ (sticky \/ odd)
            IN MagAdd(<<a[1], a[2], a[3] - r>>, IF up THEN <<0, 0, unit>> ELSE <<0, 0, 0>>)

\* x + y on doubles
FAdd(x, y) ==
    IF x.neg = y.neg THEN Double(x.neg, Round(MagAdd(x.m, y.m), FALSE))
    ELSE IF x.m = y.m THEN Zero
    ELSE IF MagLess(x.m, y.m) THEN Double(y.neg, Round(MagSub(y.m, x.m), FALSE))
    ELSE Double(x.neg, Round(MagSub(x.m, y.m), FALSE))

\* x - y on doubles
FSub(x, y) == FAdd(x, Double(~y.neg, y.m))

\* x / 2.0: exact, the magnitudes here being even
FHalf(x) ==
    Double(x.neg,
           <<x.m[1] \div 2,
             (x.m[2] \div 2) + (x.m[1] % 2) * (LimbBase \div 2),
             (x.m[3] \div 2) + (x.m[2] % 2) * (LimbBase \div 2)>>)

\* fabs(x) >= fabs(y)
FAbsGeq(x, y) == ~MagLess(x.m, y.m)

\* the double nearest to tenths / 10: what float("d.d") returns, by long
\* division of tenths * 2^FracBits by 10, limb after limb
DoubleOfTenths(tenths) ==
    LET h == tenths * HighOne
        r2 == h % Tenth
        r1 == (r2 * LimbBase) % Tenth
        r0 == (r1 * LimbBase) % Tenth
    IN Double(FALSE,
              Round(<<h \div Tenth, (r2 * LimbBase) \div Tenth, (r1 * LimbBase) \div Tenth>>,
                    r0 # 0))

\* x equals a whole number
IsWhole(x) == x.m[2] = 0 /\ x.m[3] = 0 /\ x.m[1] % HighOne = 0

\* int(x): truncation toward zero
IntOfDouble(x) == IF x.neg THEN -(x.m[1] \div HighOne) ELSE x.m[1] \div HighOne

(***************************************************************************)
(* ScoreCalculator.convert_raw_to_toefl                                    *)
(***************************************************************************)
\* the conversion table, keys 0..16
conversion_table ==
    [k \in 0..16 |->
        <<0, 2, 4, 6, 8, 9, 11, 13, 15, 17, 19, 21, 23, 24, 26, 28, 30>>[k + 1]]

\* Python's None and a number (in halves) as values of one shape
None == [isNone |-> TRUE, halves |-> 0]
Number(h) == [isNone |-> FALSE, halves |-> h]

\* a raw score is given in twentieths, [isFloat, n], or as a double
IsDouble(raw) == "m" \in DOMAIN raw

\* raw_score in conversion_table: the raw score equals an integer key.  The
\* lookup hashes 6 and 6.0 alike, so the argument's type plays no part.
InTable(raw) ==
    IF IsDouble(raw)
    THEN IsWhole(raw) /\ IntOfDouble(raw) \in DOMAIN conversion_table
    ELSE raw.n % RawUnit = 0 /\ (raw.n \div RawUnit) \in DOMAIN conversion_table

\* int(raw_score): truncation toward zero
PyInt(raw) ==
    IF IsDouble(raw) THEN IntOfDouble(raw)
    ELSE IF raw.n >= 0 THEN raw.n \div RawUnit ELSE -((-raw.n) \div RawUnit)

\* a mutant: the table replaced by the linear rule 2 * raw, capped at 30
convert_linear(raw) ==
    IF InTable(raw)
    THEN Number(2 * (IF PyInt(raw) = 16 THEN 30 ELSE 2 * PyInt(raw)))
    ELSE LET lower == PyInt(raw)
             upper == lower + 1
         IN IF lower \in DOMAIN conversion_table /\ upper \in DOMAIN conversion_table
            THEN Number(conversion_table[lower] + conversion_table[upper])
            ELSE None

convert_raw_to_toefl(raw) ==
    IF InTable(raw)
    THEN Number(2 * conversion_table[PyInt(raw)])
    ELSE LET lower == PyInt(raw)
             upper == lower + 1
         IN IF lower \in DOMAIN conversion_table /\ upper \in DOMAIN conversion_table
            THEN Number(conversion_table[lower] + conversion_table[upper])
            ELSE None

\* the raw scores tried: every twentieth from RawBelow points under 0 to
\* RawAbove points over 16, as a float, and as an int where it is a whole number
RawInputs ==
    { r \in [isFloat : BOOLEAN, n : (-(RawBelow * RawUnit)) .. ((16 + RawAbove) * RawUnit)] :
        r.isFloat \/ r.n % RawUnit = 0 }

(***************************************************************************)
(* EvaluationEngine.evaluate_student_response                              *)
(***************************************************************************)
Sentinel ==
    <<"No response provided. Unable to evaluate language use or topic development.">>

\* a rubric argument is a dict of descriptions, named here by its kind, or else
\* "empty" for an empty dict and "None"
Rubrics == {"language_use", "independent", "integrated"}

\* if x: for an optional text
Truthy(opt) == opt.some /\ opt.text # <<>>

\* the prompt built for a call, as the fields that vary in it
Prompt(args) ==
    IF args.topic_development_rubric \in Rubrics
    THEN [variant |-> "language_use_and_topic_development",
          language_use_rubric |-> args.language_use_rubric,
          topic_development_rubric |-> args.topic_development_rubric,
          reading |-> IF Truthy(args.reading_transcript) THEN args.reading_transcript ELSE NoText,
          listening |-> IF Truthy(args.listening_transcript) THEN args.listening_transcript ELSE NoText,
          question |-> Some(args.question),
          student_response |-> args.student_response]
    ELSE [variant |-> "language_use",
          language_use_rubric |-> args.language_use_rubric,
          topic_development_rubric |-> "None",
          reading |-> IF Truthy(args.reading_transcript) THEN args.reading_transcript ELSE NoText,
          listening |-> IF Truthy(args.listening_transcript) THEN args.listening_transcript ELSE NoText,
          question |-> NoText,
          student_response |-> args.student_response]

\* a mutant: the empty check on the unstripped text
evaluate_unstripped(args, reply) ==
    IF args.student_response = <<>>
    THEN [feedback |-> Sentinel, sent |-> <<>>, raised |-> FALSE]
    ELSE IF reply.some
         THEN [feedback |-> reply.text, sent |-> <<Prompt(args)>>, raised |-> FALSE]
         ELSE [feedback |-> <<>>, sent |-> <<Prompt(args)>>, raised |-> TRUE]

\* The call, given what the service does if asked: reply is its answer, or
\* NoText when get_completion raises.  sent is the prompts sent by the call.
evaluate_student_response(args, reply) ==
    IF strip(args.student_response) = <<>>
    THEN [feedback |-> Sentinel, sent |-> <<>>, raised |-> FALSE]
    ELSE IF reply.some
         THEN [feedback |-> reply.text, sent |-> <<Prompt(args)>>, raised |-> FALSE]
         ELSE [feedback |-> <<>>, sent |-> <<Prompt(args)>>, raised |-> TRUE]

(***************************************************************************)
(* EvaluationEngine.grade_task                                             *)
(***************************************************************************)
Question == <<"question">>
ReadingText == <<"reading">>
ListeningText == <<"listening">>

\* responses[student_name] = value, on an insertion-ordered dict
DictSet(entries, name, entry) ==
    IF \E i \in 1..Len(entries) : entries[i].name = name
    THEN [i \in 1..Len(entries) |-> IF entries[i].name = name THEN entry ELSE entries[i]]
    ELSE Append(entries, entry)

\* which of task{N}_question.txt, task{N}_reading.txt and task{N}_listening.txt
\* exist
AllTaskFiles == [question |-> TRUE, reading |-> TRUE, listening |-> TRUE]

\* A student file is named by the parts that the underscores of its name
\* separate, up to the ending "task{N}.txt" that the glob pattern fixes:
\* amy_v2_task1.txt is <<"amy", "v2">>.
\* os.path.basename(student_file).split('_')[0]
student_name(path) == Head(path)

\* the transcripts grade_task holds after reading the files that exist
reading_transcript(task, files) ==
    IF task \in {2, 3} /\ files.reading THEN Some(ReadingText) ELSE NoText
listening_transcript(task, files) ==
    IF files.listening THEN Some(ListeningText) ELSE NoText

\* a mutant: a topic-development rubric for the independent task only
GradeArgsIndependentOnly(task, files, student_response) ==
    [question |-> Question,
     student_response |-> student_response,
     language_use_rubric |-> "language_use",
     topic_development_rubric |-> IF task = 1 THEN "independent" ELSE "None",
     reading_transcript |-> IF task \in {2, 3} THEN reading_transcript(task, files) ELSE NoText,
     listening_transcript |->
        IF task \in {2, 3, 4} THEN listening_transcript(task, files) ELSE NoText]

\* a mutant: the transcripts passed as they were read, whatever the task
GradeArgsEveryTranscript(task, files, student_response) ==
    [question |-> Question,
     student_response |-> student_response,
     language_use_rubric |-> "language_use",
     topic_development_rubric |-> IF task = 1 THEN "independent" ELSE "integrated",
     reading_transcript |-> reading_transcript(task, files),
     listening_transcript |-> listening_transcript(task, files)]

\* the arguments grade_task passes for one student file
GradeArgs(task, files, student_response) ==
    [question |-> Question,
     student_response |-> student_response,
     language_use_rubric |-> "language_use",
     topic_development_rubric |-> IF task = 1 THEN "independent" ELSE "integrated",
     reading_transcript |-> IF task \in {2, 3} THEN reading_transcript(task, files) ELSE NoText,
     listening_transcript |->
        IF task \in {2, 3, 4} THEN listening_transcript(task, files) ELSE NoText]

Evaluating(name) == [message |-> "Evaluating response for student", name |-> name]
NoStudentFiles == [message |-> "No student files found", name |-> "-"]

\* the loop over the student files from file i on; replies[i] is what the
\* service does if asked about file i
RECURSIVE GradeLoop(_, _, _, _, _, _, _, _)
GradeLoop(task, files, students, replies, i, responses, sent, printed) ==
    IF i > Len(students)
    THEN [responses |-> responses, sent |-> sent, printed |-> printed, raised |-> FALSE]
    ELSE LET student_response == strip(students[i].content)
             name == student_name(students[i].path)
             r == evaluate_student_response(GradeArgs(task, files, student_response),
                                            replies[i])
         IN IF r.raised
            THEN [responses |-> responses, sent |-> sent \o r.sent,
                  printed |-> Append(printed, Evaluating(name)), raised |-> TRUE]
            ELSE GradeLoop(task, files, students, replies, i + 1,
                           DictSet(responses, name,
                                   [name |-> name,
                                    original_response |-> student_response,
                                    feedback |-> r.feedback]),
                           sent \o r.sent,
                           Append(printed, Evaluating(name)))

NoFile == [exists |-> FALSE, entries |-> <<>>]
File(entries) == [exists |-> TRUE, entries |-> entries]

\* a mutant: the mapping is written as far as the loop got
dump_partial(loop, file) == File(loop.responses)

\* json.dump(responses, f) after the loop: reached when no call raised
dump_responses(loop, file) == IF loop.raised THEN file ELSE File(loop.responses)

\* grade_task(task): files are the task's files that exist, students the
\* student files found, file the responses file as it is before the call
grade_task(task, files, students, replies, file) ==
    IF ~files.question
    THEN [raised |-> TRUE, file |-> file, sent |-> <<>>, printed |-> <<>>]
    ELSE IF students = <<>>
         THEN [raised |-> FALSE, file |-> file, sent |-> <<>>,
               printed |-> <<NoStudentFiles>>]
         ELSE LET loop == GradeLoop(task, files, students, replies, 1, <<>>, <<>>, <<>>)
              IN [raised |-> loop.raised, file |-> dump_responses(loop, file),
                  sent |-> loop.sent, printed |-> loop.printed]

(***************************************************************************)
(* FeedbackFormatter.process_responses: the loop over the responses        *)
(***************************************************************************)
\* the three searches on one entry's feedback, stripped first
FmtMatches(entry) ==
    LET raw_feedback == strip(entry.feedback)
    IN [language_use |-> search_score(LU, raw_feedback),
        topic_development |-> search_score(TD, raw_feedback),
        revised |-> search_revised(raw_feedback)]

\* a mutant: the entry is kept as soon as the two scores are found
FmtAcceptsWithoutRevised(entry) ==
    LET m == FmtMatches(entry)
    IN m.language_use.matched /\ m.topic_development.matched

\* the entry is kept: all three searches matched
FmtAccepts(entry) ==
    LET m == FmtMatches(entry)
    IN m.language_use.matched /\ m.revised.matched /\ m.topic_development.matched

\* a mutant: the topic-development column read from the language-use match
FmtRowCopiedScore(entry) ==
    LET m == FmtMatches(entry)
        language_use_score == float(m.language_use.group)
    IN [name |-> entry.name,
        language_use |-> language_use_score,
        topic_development |-> language_use_score,
        overall |-> language_use_score + language_use_score,
        original_text |-> strip(entry.original_response),
        revised_text |-> strip(m.revised.group)]

\* the report row of a kept entry; the overall score is in twentieths
FmtRow(entry) ==
    LET m == FmtMatches(entry)
        language_use_score == float(m.language_use.group)
        topic_development_score == float(m.topic_development.group)
    IN [name |-> entry.name,
        language_use |-> language_use_score,
        topic_development |-> topic_development_score,
        overall |-> language_use_score + topic_development_score,
        original_text |-> strip(entry.original_response),
        revised_text |-> strip(m.revised.group)]

\* highlight_differences: the two cleaned texts handed to Redlines
HighlightInput(original_text, revised_text) ==
    [original |-> clean_text(original_text), revised |-> clean_text(revised_text)]

\* the words of a text: its maximal runs of tokens that are not whitespace
RECURSIVE Words(_)
Words(text) ==
    LET rest == SkipWhitespace(text)
    IN IF rest = <<>> THEN <<>>
       ELSE LET spaces == {i \in 1..Len(rest) : rest[i] \in Whitespace}
                end == IF spaces = {} THEN Len(rest) ELSE Min(spaces) - 1
            IN <<SubSeq(rest, 1, end)>> \o Words(SubSeq(rest, end + 1, Len(rest)))

\* the length of the longest common prefix of two sequences
CommonPrefix(a, b) ==
    Max({k \in 0..Min({Len(a), Len(b)}) : SubSeq(a, 1, k) = SubSeq(b, 1, k)})

\* the length of the longest common suffix of two sequences
CommonSuffix(a, b) ==
    Max({k \in 0..Min({Len(a), Len(b)}) :
            SubSeq(a, Len(a) - k + 1, Len(a)) = SubSeq(b, Len(b) - k + 1, Len(b))})

\* Redlines(a, b): a word-level diff read from left to right.  The words the
\* two texts begin with and end with alike are unchanged; of what lies
\* between, the words of a are deleted and the words of b inserted.
Redlines(a, b) ==
    LET p == CommonPrefix(Words(a), Words(b))
        restA == SubSeq(Words(a), p + 1, Len(Words(a)))
        restB == SubSeq(Words(b), p + 1, Len(Words(b)))
        q == CommonSuffix(restA, restB)
    IN [deleted |-> SubSeq(restA, 1, Len(restA) - q),
        inserted |-> SubSeq(restB, 1, Len(restB) - q)]

highlight_differences(original_text, revised_text) ==
    LET texts == HighlightInput(original_text, revised_text)
    IN Redlines(texts.original, texts.revised)

RECURSIVE FmtRows(_)
FmtRows(entries) ==
    IF entries = <<>> THEN <<>>
    ELSE (IF FmtAccepts(Head(entries)) THEN <<FmtRow(Head(entries))>> ELSE <<>>)
         \o FmtRows(Tail(entries))

RECURSIVE FmtChanges(_)
FmtChanges(entries) ==
    IF entries = <<>> THEN <<>>
    ELSE (IF FmtAccepts(Head(entries)) /\ strip(Head(entries).original_response) # <<>>
          THEN <<[name |-> Head(entries).name,
                  diff |-> HighlightInput(FmtRow(Head(entries)).original_text,
                                          FmtRow(Head(entries)).revised_text)]>>
          ELSE <<>>)
         \o FmtChanges(Tail(entries))

RECURSIVE FmtFailures(_)
FmtFailures(entries) ==
    IF entries = <<>> THEN <<>>
    ELSE (IF FmtAccepts(Head(entries)) THEN <<>>
          ELSE <<[message |-> "Failed to parse feedback", name |-> Head(entries).name]>>)
         \o FmtFailures(Tail(entries))

\* FeedbackFormatter.process_responses on the responses file as it is: the
\* rows of the report, the diffs, the messages printed, and whether the
\* xlsx, csv and html files are written
process_responses(file) ==
    IF ~file.exists
    THEN [df |-> <<>>, highlighted_changes |-> <<>>,
          printed |-> <<[message |-> "JSON file not found", name |-> "-"]>>,
          saved |-> FALSE]
    ELSE LET rows == FmtRows(file.entries)
         IN [df |-> rows,
             highlighted_changes |-> FmtChanges(file.entries),
             printed |-> FmtFailures(file.entries)
                         \o (IF rows = <<>>
                             THEN <<[message |-> "No valid responses found", name |-> "-"]>>
                             ELSE <<>>),
             saved |-> rows # <<>>]

(***************************************************************************)
(* ScoreCalculator.read_scores_from_json                                   *)
(***************************************************************************)
\* the two searches on one entry and the overall score, in twentieths
AggParsed(entry) ==
    LET lu == search_score(LU, entry.feedback)
        td == search_score(TD, entry.feedback)
    IN IF lu.matched /\ td.matched
       THEN [found |-> TRUE, overall |-> float(lu.group) + float(td.group)]
       ELSE [found |-> FALSE, overall |-> 0]

Names(entries) == {entries[i].name : i \in 1..Len(entries)}
EntryOf(entries, name) == entries[CHOOSE i \in 1..Len(entries) : entries[i].name = name]

\* a mutant: an entry without both scores counts as a score of 0
read_scores_default_zero(entries) ==
    [name \in Names(entries) |-> AggParsed(EntryOf(entries, name)).overall]

\* task_scores: student -> overall score, for the entries with both scores
read_scores_from_json(entries) ==
    [name \in {n \in Names(entries) : AggParsed(EntryOf(entries, n)).found}
        |-> AggParsed(EntryOf(entries, name)).overall]

\* the students printed as lacking a score, in file order
RECURSIVE AggFailures(_)
AggFailures(entries) ==
    IF entries = <<>> THEN <<>>
    ELSE (IF AggParsed(Head(entries)).found THEN <<>>
          ELSE <<[message |-> "Could not find both scores", name |-> Head(entries).name]>>)
         \o AggFailures(Tail(entries))

(***************************************************************************)
(* ShadowingAudioGen                                                       *)
(***************************************************************************)
\* extract_modified_response: the stripped capture, or None
extract_modified_response(feedback) ==
    LET match == search_revised(feedback)
    IN IF match.matched THEN Some(strip(match.group)) ELSE NoText

\* mdMaker.generate_highlighted_html: the revised text of one entry, or None
md_revised_text(entry) ==
    LET revised_text_match == search_revised(strip(entry.feedback))
    IN IF revised_text_match.matched THEN Some(strip(revised_text_match.group)) ELSE NoText

Genders == {"male", "female", "unknown"}

\* the loop of process_responses; gender_data maps student names to genders
RECURSIVE ShadowAudio(_, _)
ShadowAudio(entries, gender_data) ==
    IF entries = <<>> THEN <<>>
    ELSE LET e == Head(entries)
             modified_response == extract_modified_response(e.feedback)
             gender == gender_data[e.name]
         IN (IF Truthy(modified_response) /\ gender \in {"male", "female"}
             THEN <<[name |-> e.name,
                     voice |-> IF gender = "male" THEN "alloy" ELSE "nova",
                     text |-> modified_response.text]>>
             ELSE <<>>)
            \o ShadowAudio(Tail(entries), gender_data)

RECURSIVE ShadowSkips(_, _)
ShadowSkips(entries, gender_data) ==
    IF entries = <<>> THEN <<>>
    ELSE LET e == Head(entries)
             modified_response == extract_modified_response(e.feedback)
         IN (IF ~Truthy(modified_response)
             THEN <<[message |-> "No modified response found", name |-> e.name]>>
             ELSE IF gender_data[e.name] \notin {"male", "female"}
                  THEN <<[message |-> "Gender unknown", name |-> e.name]>>
                  ELSE <<>>)
            \o ShadowSkips(Tail(entries), gender_data)

\* ShadowingAudioGen.process_responses on the responses file and the gender
\* file as they are: nothing is done when either is missing or empty
shadow_process_responses(file, gender_file) ==
    IF \/ ~file.exists \/ file.entries = <<>>
       \/ ~gender_file.exists \/ gender_file.entries = [x \in {} |-> 0]
    THEN [audio |-> <<>>, printed |-> <<>>]
    ELSE [audio |-> ShadowAudio(file.entries, gender_file.entries),
          printed |-> ShadowSkips(file.entries, gender_file.entries)]

(***************************************************************************)
(* Inputs                                                                  *)
(***************************************************************************)
Students == {"amy", "bob"}

DigitChar == <<"0", "1", "2", "3", "4", "5", "6", "7", "8", "9">>

\* a score written the way the prompt asks for it: "<label> d.d", from tenths
ScoreField(label, tenths) ==
    <<label, " ", DigitChar[(tenths \div Tenth) + 1], ".", DigitChar[(tenths % Tenth) + 1]>>

\* an answer of the service in the format of the prompt, from its three fields
Reply(lu_field, td_field, revised_field) ==
    lu_field \o <<"\n">> \o td_field \o <<"\n", FB, " ", "Good.", "\n">> \o revised_field

RevisedOneLine == <<RV, " ", "I", " ", "think", " ", "so.">>
RevisedLines == <<RV, "\n", "\n", QUOTE, "I", " ", "think", "\n", "so.", QUOTE, " ", "\n">>

\* the contents of a student file
FileContents == {<<" ", "\n">>, <<"I", " ", "think", "\n">>}

\* the few answers used where several students are graded together
SmallReplies ==
    { Reply(ScoreField(LU, 30), ScoreField(TD, 20), RevisedOneLine),
      Reply(ScoreField(LU, 40), ScoreField(TD, 35), RevisedLines),
      Reply(ScoreField(LU, 30), ScoreField(TD, 20), <<>>),
      Reply(ScoreField(LU, 30), <<>>, RevisedOneLine),
      Reply(<<>>, ScoreField(TD, 20), RevisedOneLine) }

\* the scores an answer may carry, in tenths
ReplyScores == {0, 10, 20, 30, 40, 35, 99}

\* the ways a score field comes out: absent, well formed, without the space,
\* without decimals, with two digits before the point
ScoreFields(label) ==
    {<<>>, <<label, "3", ".", "0">>, <<label, " ", "3">>, <<label, " ", "1", "0", ".", "0">>}
    \cup {ScoreField(label, t) : t \in ReplyScores}

\* the ways the revised version comes out: absent, on one line, over several
\* lines, empty, with the label repeated inside the text
RevisedFields ==
    {<<>>, RevisedOneLine, RevisedLines, <<RV>>, <<RV, " ", "\n">>,
     <<RV, " ", "so.", "\n", RV, " ", "really.">>}

\* the answers used where one student is graded
RichReplies ==
    {Reply(l, t, r) : l \in ScoreFields(LU), t \in ScoreFields(TD), r \in RevisedFields}

\* the one answer used where the files of the task vary
PlainReplies == {Reply(ScoreField(LU, 30), ScoreField(TD, 20), RevisedOneLine)}

ServiceReplies ==
    IF service = "rich" THEN RichReplies
    ELSE IF service = "plain" THEN PlainReplies ELSE SmallReplies

\* what the service does when asked: an answer, or NoText when it raises
ServiceOutcomes == {Some(t) : t \in ServiceReplies} \cup {NoText}

\* the names of the student files a task directory may hold
StudentPaths == {<<"amy">>, <<"amy", "v2">>, <<"bob">>}

\* the results of the glob: the sequences of at most n student files, each
\* file once
FileLists(n) ==
    {l \in UNION {[1..k -> [path : StudentPaths, content : FileContents]] : k \in 0..n} :
        \A i, j \in 1..Len(l) : l[i].path = l[j].path => i = j}

\* what the question, reading and listening files of a task may be
TaskFileSets == [question : BOOLEAN, reading : BOOLEAN, listening : BOOLEAN]

\* a responses file left by an earlier run
PreviousFile ==
    File(<<[name |-> "amy", original_response |-> <<"I", " ", "think">>,
            feedback |-> Reply(ScoreField(LU, 40), ScoreField(TD, 35), RevisedLines)]>>)

EmptyDict == [x \in {} |-> 0]

\* student_gender_map.json: missing, empty, or a gender for every student
GenderFiles == {NoFile} \cup {File(g) : g \in [Students -> Genders] \cup {EmptyDict}}

(***************************************************************************)
(* States in which a part of the model is not in use                       *)
(***************************************************************************)
ConvIdle == raw_score = [isFloat |-> FALSE, n |-> 0] /\ toefl_score = None /\ conv_pc = "idle"

EvalIdle == ev_args = <<>> /\ ev_result = <<>> /\ ev_pc = "idle"

TaskIdle ==
    /\ script = "none"
    /\ task_number = 1
    /\ task_files = AllTaskFiles
    /\ student_files = <<>>
    /\ responses_file = NoFile
    /\ eng_log = <<>>
    /\ eng_pc = "idle"

FmtStart ==
    /\ df = <<>>
    /\ highlighted_changes = <<>>
    /\ fmt_log = <<>>
    /\ fmt_saved = FALSE

ShadowStart == audio_requests = <<>> /\ shadow_log = <<>>

AggStart ==
    /\ task_scores = EmptyDict
    /\ next_task = 1
    /\ written = EmptyDict
    /\ total_scores = EmptyDict
    /\ raw_scores = EmptyDict
    /\ toefl_scores = EmptyDict
    /\ agg_log = <<>>
    /\ roster = NoFile

FmtIdle == FmtStart /\ fmt_pc = "idle"

ShadowIdle == ShadowStart /\ shadow_pc = "idle"

AggIdle == AggStart /\ agg_pc = "idle"

ConsumersIdle == FmtIdle /\ ShadowIdle /\ AggIdle

NoScores == [raw_scores |-> EmptyDict, toefl_scores |-> EmptyDict]

OrderStart == given_scores = NoScores /\ other_scores = NoScores

OrderIdle ==
    /\ py_build = "plain"
    /\ given_files = <<>>
    /\ other_files = <<>>
    /\ OrderStart
    /\ order_pc = "idle"

\* no file of any task
NoTaskFiles ==
    [t \in 1..NumTasks |-> [question |-> "missing", reading |-> FALSE, listening |-> FALSE]]

NoSummary == [printed |-> FALSE, success |-> <<>>, errors |-> EmptyDict]

MdStart ==
    /\ init_vars = [tpo_number |-> <<>>, class_name |-> <<>>]
    /\ available_tasks = <<>>
    /\ missing_files_report = EmptyDict
    /\ md_next = 1
    /\ processed_tasks = <<>>
    /\ errors = EmptyDict
    /\ md_saved = {}
    /\ summary = NoSummary

MdIdle == md_files = NoTaskFiles /\ MdStart /\ md_pc = "idle"

MainIdle ==
    /\ stdin = <<>> /\ consumed = <<>> /\ handled = <<>>
    /\ disk = [n \in 1..NumTasks |-> NoFile]
    /\ main_pc = "idle"

DiffIdle ==
    /\ original = <<>> /\ revised = <<>>
    /\ cleaned = [original |-> <<>>, revised |-> <<>>]
    /\ highlighted = [deleted |-> <<>>, inserted |-> <<>>]
    /\ diff_pc = "idle"

(***************************************************************************)
(* convert_raw_to_toefl on its own                                         *)
(***************************************************************************)
ConvInit ==
    /\ raw_score \in RawInputs
    /\ toefl_score = None
    /\ conv_pc = "call"
    /\ EvalIdle /\ TaskIdle /\ ConsumersIdle
    /\ DiffIdle /\ MainIdle /\ MdIdle /\ OrderIdle
    /\ service = "small"
    /\ requests = <<>>

ConvCall ==
    /\ conv_pc = "call"
    /\ toefl_score' = convert_raw_to_toefl(raw_score)
    /\ conv_pc' = "returned"
    /\ UNCHANGED <<raw_score, evalVars, service, requests, taskVars, fmtVars, shadowVars,
                   aggVars>>
    /\ UNCHANGED <<diffVars, mainVars, mdVars, orderVars>>

ConvNext == ConvCall

SpecConvert == ConvInit /\ [][ConvNext]_vars

(***************************************************************************)
(* evaluate_student_response on its own                                    *)
(***************************************************************************)
EvalResponses == {<<>>, <<" ">>, <<"\n", " ">>, <<"I", " ", "think">>, <<" ", "I", "\n">>}
OptionalTexts == {NoText, Some(<<>>), Some(<<"text">>)}

EvalInit ==
    /\ ev_args \in [question : {Question},
                    student_response : EvalResponses,
                    language_use_rubric : {"language_use"},
                    topic_development_rubric : {"None", "empty", "independent", "integrated"},
                    reading_transcript : OptionalTexts,
                    listening_transcript : OptionalTexts]
    /\ ev_result = <<>>
    /\ ev_pc = "call"
    /\ ConvIdle /\ TaskIdle /\ ConsumersIdle
    /\ DiffIdle /\ MainIdle /\ MdIdle /\ OrderIdle
    /\ service = "small"
    /\ requests = <<>>

EvalCall ==
    /\ ev_pc = "call"
    /\ \E reply \in ServiceOutcomes :
         LET r == evaluate_student_response(ev_args, reply)
         IN /\ requests' = requests \o r.sent
            /\ ev_result' = r.feedback
            /\ ev_pc' = IF r.raised THEN "raised" ELSE "returned"
    /\ UNCHANGED <<ev_args, convVars, service, taskVars, fmtVars, shadowVars, aggVars>>
    /\ UNCHANGED <<diffVars, mainVars, mdVars, orderVars>>

EvalNext == EvalCall

SpecEvaluate == EvalInit /\ [][EvalNext]_vars

(***************************************************************************)
(* One task: EvaluationEngine writes the responses file, then one of the   *)
(* other scripts is launched on it                                         *)
(***************************************************************************)
Scripts == {"FeedbackFormatter", "ScoreCalculator", "ShadowingAudioGen"}

TaskInitWith(fileLists, repertoire) ==
    /\ script \in Scripts
    /\ task_number \in 1..NumTasks
    /\ task_files = AllTaskFiles
    /\ student_files \in fileLists
    /\ responses_file = NoFile
    /\ eng_log = <<>>
    /\ eng_pc = "prompt"
    /\ service = repertoire
    /\ requests = <<>>
    /\ FmtStart /\ fmt_pc = "prompt"
    /\ ShadowStart /\ shadow_pc = "prompt"
    /\ AggStart /\ agg_pc = "reading"
    /\ ConvIdle /\ EvalIdle
    /\ DiffIdle /\ MainIdle /\ MdIdle /\ OrderIdle

\* several students, few answers
Init == TaskInitWith(FileLists(MaxFiles), "small")

\* one student, every answer
ParseInit ==
    TaskInitWith({<<[path |-> <<"amy">>, content |-> c]>> : c \in FileContents}, "rich")

\* EvaluationEngine.grade_task(task_number)
GradeTask ==
    /\ eng_pc = "prompt"
    /\ \E replies \in [1..Len(student_files) -> ServiceOutcomes] :
         LET r == grade_task(task_number, task_files, student_files, replies, responses_file)
         IN /\ requests' = requests \o r.sent
            /\ eng_log' = eng_log \o r.printed
            /\ eng_pc' = IF r.raised THEN "crashed" ELSE "done"
            /\ responses_file' = r.file
    /\ UNCHANGED <<script, task_number, task_files, student_files, service, convVars,
                   evalVars, fmtVars, shadowVars, aggVars>>
    /\ UNCHANGED <<diffVars, mainVars, mdVars, orderVars>>

\* FeedbackFormatter.process_responses(task_number)
ProcessResponses ==
    /\ script = "FeedbackFormatter"
    /\ eng_pc # "prompt"
    /\ fmt_pc = "prompt"
    /\ fmt_pc' = "done"
    /\ LET r == process_responses(responses_file)
       IN /\ df' = r.df
          /\ highlighted_changes' = r.highlighted_changes
          /\ fmt_log' = fmt_log \o r.printed
          /\ fmt_saved' = r.saved
    /\ UNCHANGED <<convVars, evalVars, service, requests, taskVars, shadowVars, aggVars>>
    /\ UNCHANGED <<diffVars, mainVars, mdVars, orderVars>>

\* ShadowingAudioGen.process_responses(task_number); the gender file is
\* missing, or empty, or gives every student a gender
ProcessShadowing ==
    /\ script = "ShadowingAudioGen"
    /\ eng_pc # "prompt"
    /\ shadow_pc = "prompt"
    /\ shadow_pc' = "done"
    /\ \E gender_file \in GenderFiles :
         LET r == shadow_process_responses(responses_file, gender_file)
         IN /\ audio_requests' = audio_requests \o r.audio
            /\ shadow_log' = shadow_log \o r.printed
    /\ UNCHANGED <<convVars, evalVars, service, requests, taskVars, fmtVars, aggVars>>
    /\ UNCHANGED <<diffVars, mainVars, mdVars, orderVars>>

\* ScoreCalculator.read_scores_from_json(task{N}_responses.json)
ReadScores ==
    /\ script = "ScoreCalculator"
    /\ eng_pc # "prompt"
    /\ agg_pc = "reading"
    /\ IF ~responses_file.exists
       THEN /\ agg_pc' = "crashed"
            /\ UNCHANGED <<task_scores, agg_log>>
       ELSE /\ agg_pc' = "read"
            /\ task_scores' = read_scores_from_json(responses_file.entries)
            /\ agg_log' = AggFailures(responses_file.entries)
    /\ UNCHANGED <<next_task, written, total_scores, raw_scores, toefl_scores, roster>>
    /\ UNCHANGED <<convVars, evalVars, service, requests, taskVars, fmtVars, shadowVars>>
    /\ UNCHANGED <<diffVars, mainVars, mdVars, orderVars>>

Next == GradeTask \/ ProcessResponses \/ ProcessShadowing \/ ReadScores

Spec == Init /\ [][Next]_vars

SpecParse == ParseInit /\ [][Next]_vars

(***************************************************************************)
(* grade_task on its own                                                   *)
(***************************************************************************)
GradeInit ==
    /\ script = "none"
    /\ task_number \in 1..NumTasks
    /\ task_files \in TaskFileSets
    /\ student_files \in FileLists(MaxFiles)
    /\ responses_file \in {NoFile, PreviousFile}
    /\ eng_log = <<>>
    /\ eng_pc = "prompt"
    /\ service = "plain"
    /\ requests = <<>>
    /\ ConvIdle /\ EvalIdle /\ ConsumersIdle
    /\ DiffIdle /\ MainIdle /\ MdIdle /\ OrderIdle

GradeNext == GradeTask

SpecGrade == GradeInit /\ [][GradeNext]_vars

(***************************************************************************)
(* ScoreCalculator.main: calculate_total_raw_and_toefl_scores over the     *)
(* task files, each file drawn when the loop opens it, then                *)
(* save_scores_to_files                                                    *)
(***************************************************************************)
\* The data frame of save_scores_to_files: int(score) raises a TypeError on
\* None before any file is opened, and truncates a number.
save_scores_to_files(raw, toefl) ==
    IF \E s \in DOMAIN toefl : toefl[s].isNone
    THEN [raised |-> TRUE, rows |-> EmptyDict]
    ELSE [raised |-> FALSE,
          rows |-> [s \in DOMAIN raw |->
                      [toefl_score |-> Number(Half * (toefl[s].halves \div Half)),
                       total_raw_score |-> raw[s]]]]

\* what a task file holds for one student: nothing, an answer with both
\* scores, or an answer without the topic-development score
Cells ==
    {[kind |-> "absent", lu |-> 0, td |-> 0], [kind |-> "unscored", lu |-> 30, td |-> 0],
     [kind |-> "scored", lu |-> 30, td |-> 30], [kind |-> "scored", lu |-> 30, td |-> 20],
     [kind |-> "scored", lu |-> 45, td |-> 45]}

CellEntry(name, cell) ==
    [name |-> name,
     original_response |-> <<"I", " ", "think">>,
     feedback |-> IF cell.kind = "scored"
                  THEN Reply(ScoreField(LU, cell.lu), ScoreField(TD, cell.td), RevisedOneLine)
                  ELSE Reply(ScoreField(LU, cell.lu), <<>>, RevisedOneLine)]

\* the orders in which the students of a set may stand in a file
Orders(S) ==
    {o \in [1..Cardinality(S) -> S] : \A i, j \in 1..Cardinality(S) : o[i] = o[j] => i = j}

RECURSIVE SumSeq(_)
SumSeq(s) == IF s = <<>> THEN 0 ELSE Head(s) + SumSeq(Tail(s))

\* a mutant: the student's list is started again by every task file
AccumulateLast(total, scores) ==
    [s \in DOMAIN total \cup DOMAIN scores |->
        IF s \in DOMAIN scores THEN <<scores[s]>> ELSE total[s]]

\* total_scores after the scores of one more task file are appended
Accumulate(total, scores) ==
    [s \in DOMAIN total \cup DOMAIN scores |->
        (IF s \in DOMAIN total THEN total[s] ELSE <<>>)
        \o (IF s \in DOMAIN scores THEN <<scores[s]>> ELSE <<>>)]

AggInit ==
    /\ AggStart /\ agg_pc = "reading"
    /\ ConvIdle /\ EvalIdle /\ TaskIdle /\ FmtIdle /\ ShadowIdle
    /\ DiffIdle /\ MainIdle /\ MdIdle /\ OrderIdle
    /\ service = "small"
    /\ requests = <<>>

\* one turn of the loop over task_files: the file is missing, or holds cells[s]
\* for student s, the students standing in some order.  The scores of the
\* file are a local of the turn; what read_scores_from_json prints is in ReadScores.
ReadTaskFile ==
    /\ agg_pc = "reading"
    /\ next_task <= NumTasks
    /\ \/ /\ agg_pc' = "crashed"
          /\ UNCHANGED <<next_task, written, total_scores>>
       \/ \E cells \in [Students -> Cells] :
            \E order \in Orders({s \in Students : cells[s].kind # "absent"}) :
              LET entries == [i \in 1..Len(order) |-> CellEntry(order[i], cells[order[i]])]
                  scores == read_scores_from_json(entries)
                  put == {s \in Students : cells[s].kind = "scored"}
              IN /\ total_scores' = Accumulate(total_scores, scores)
                 /\ written' = [s \in DOMAIN written \cup put |->
                                  (IF s \in DOMAIN written THEN written[s] ELSE EmptyDict)
                                  @@ (IF s \in put
                                      THEN next_task :> (cells[s].lu + cells[s].td)
                                      ELSE EmptyDict)]
                 /\ next_task' = next_task + 1
                 /\ agg_pc' = "reading"
    /\ UNCHANGED <<task_scores, agg_log, raw_scores, toefl_scores, roster>>
    /\ UNCHANGED <<convVars, evalVars, service, requests, taskVars, fmtVars, shadowVars>>
    /\ UNCHANGED <<diffVars, mainVars, mdVars, orderVars>>

\* the rest of calculate_total_raw_and_toefl_scores, after the loop
Calculate ==
    /\ agg_pc = "reading"
    /\ next_task = NumTasks + 1
    /\ raw_scores' = [s \in DOMAIN total_scores |-> SumSeq(total_scores[s])]
    /\ toefl_scores' =
         [s \in DOMAIN total_scores |->
            convert_raw_to_toefl([isFloat |-> TRUE, n |-> SumSeq(total_scores[s])])]
    /\ agg_pc' = "calculated"
    /\ UNCHANGED <<task_scores, next_task, written, total_scores, agg_log, roster>>
    /\ UNCHANGED <<convVars, evalVars, service, requests, taskVars, fmtVars, shadowVars>>
    /\ UNCHANGED <<diffVars, mainVars, mdVars, orderVars>>

\* save_scores_to_files(raw_scores, toefl_scores, "Student_TOEFL_Scores")
SaveScores ==
    /\ agg_pc = "calculated"
    /\ LET saved == save_scores_to_files(raw_scores, toefl_scores)
       IN /\ agg_pc' = IF saved.raised THEN "crashed" ELSE "saved"
          /\ roster' = IF saved.raised THEN roster ELSE File(saved.rows)
    /\ UNCHANGED <<task_scores, next_task, written, total_scores, raw_scores, toefl_scores,
                   agg_log>>
    /\ UNCHANGED <<convVars, evalVars, service, requests, taskVars, fmtVars, shadowVars>>
    /\ UNCHANGED <<diffVars, mainVars, mdVars, orderVars>>

AggNext == ReadTaskFile \/ Calculate \/ SaveScores

SpecAggregate == AggInit /\ [][AggNext]_vars

(***************************************************************************)
(* calculate_total_raw_and_toefl_scores on floats, called on the task      *)
(* files in two orders                                                     *)
(***************************************************************************)
\* overall_score of a record with both scores:
\* (float(lu) + float(td)) / 2.0
overall_score(entry) ==
    FHalf(FAdd(DoubleOfTenths(float(search_score(LU, entry.feedback).group)),
               DoubleOfTenths(float(search_score(TD, entry.feedback).group))))

\* task_scores of read_scores_from_json, the overall scores as floats
read_float_scores(entries) ==
    [name \in DOMAIN read_scores_from_json(entries) |-> overall_score(EntryOf(entries, name))]

\* total_scores after the loop over task_files
RECURSIVE TotalScores(_, _)
TotalScores(total, files) ==
    IF files = <<>> THEN total
    ELSE TotalScores(Accumulate(total, read_float_scores(Head(files))), Tail(files))

\* sum() over floats as one addition after the other
RECURSIVE SumPlain(_, _)
SumPlain(result, items) ==
    IF items = <<>> THEN result ELSE SumPlain(FAdd(result, Head(items)), Tail(items))

\* sum() over floats with the compensation c of the lost low-order bits
RECURSIVE SumCompensated(_, _, _)
SumCompensated(result, c, items) ==
    IF items = <<>> THEN (IF c = Zero THEN result ELSE FAdd(result, c))
    ELSE LET x == Head(items)
             t == FAdd(result, x)
             lost == IF FAbsGeq(result, x) THEN FAdd(FSub(result, t), x)
                     ELSE FAdd(FSub(x, t), result)
         IN SumCompensated(t, FAdd(c, lost), Tail(items))

\* sum(scores): the start value 0 plus the first score is the first score
py_sum(scores, build) ==
    IF scores = <<>> THEN Zero
    ELSE IF build = "plain" THEN SumPlain(Head(scores), Tail(scores))
    ELSE SumCompensated(Head(scores), Zero, Tail(scores))

calculate_total_raw_and_toefl_scores(files, build) ==
    LET total == TotalScores(EmptyDict, files)
        raw == [s \in DOMAIN total |-> py_sum(total[s], build)]
    IN [raw_scores |-> raw,
        toefl_scores |-> [s \in DOMAIN raw |-> convert_raw_to_toefl(raw[s])]]

\* what a task file holds for amy: nothing, or both scores
OrderCells ==
    {[kind |-> "absent", lu |-> 0, td |-> 0], [kind |-> "scored", lu |-> 10, td |-> 10],
     [kind |-> "scored", lu |-> 10, td |-> 11], [kind |-> "scored", lu |-> 18, td |-> 40]}

\* a task file: amy's record if any, and bob's if he took the test
OrderFile(cell, withBob) ==
    (IF cell.kind = "absent" THEN <<>> ELSE <<CellEntry("amy", cell)>>)
    \o (IF withBob THEN <<CellEntry("bob", [kind |-> "scored", lu |-> 30, td |-> 20])>>
        ELSE <<>>)

Builds == {"plain", "compensated"}

\* the records of a file, last to first
Reverse(entries) == [i \in 1..Len(entries) |-> entries[Len(entries) + 1 - i]]

OrderInit ==
    /\ py_build \in Builds
    /\ \E cells \in [1..NumTasks -> OrderCells], withBob \in BOOLEAN :
         given_files = [t \in 1..NumTasks |-> OrderFile(cells[t], withBob)]
    /\ other_files = <<>>
    /\ OrderStart
    /\ order_pc = "call"
    /\ ConvIdle /\ EvalIdle /\ TaskIdle /\ ConsumersIdle /\ DiffIdle /\ MainIdle /\ MdIdle
    /\ service = "small"
    /\ requests = <<>>

OrderOthersUnchanged ==
    UNCHANGED <<convVars, evalVars, service, requests, taskVars, fmtVars, shadowVars, aggVars,
                diffVars, mainVars, mdVars>>

\* calculate_total_raw_and_toefl_scores(task_files)
CalculateGiven ==
    /\ order_pc = "call"
    /\ given_scores' = calculate_total_raw_and_toefl_scores(given_files, py_build)
    /\ order_pc' = "first"
    /\ UNCHANGED <<py_build, given_files, other_files, other_scores>>
    /\ OrderOthersUnchanged

\* the same call, the task files in another order, the records of every
\* file in the same order as before or last to first
CalculateOther ==
    /\ order_pc = "first"
    /\ \E order \in Orders(1..NumTasks), reversed \in BOOLEAN :
         LET files == [i \in 1..NumTasks |->
                         IF reversed THEN Reverse(given_files[order[i]])
                         ELSE given_files[order[i]]]
         IN /\ other_files' = files
            /\ other_scores' = calculate_total_raw_and_toefl_scores(files, py_build)
    /\ order_pc' = "both"
    /\ UNCHANGED <<py_build, given_files, given_scores>>
    /\ OrderOthersUnchanged

OrderNext == CalculateGiven \/ CalculateOther

SpecOrder == OrderInit /\ [][OrderNext]_vars

(***************************************************************************)
(* highlight_differences on its own                                        *)
(***************************************************************************)
\* the longest text tried, in tokens, before any wrapping
MaxText == 3

\* the texts tried: words, spaces and double quotes in every order
DiffTexts == UNION {[1..k -> {QUOTE, " ", "abc"}] : k \in 0..MaxText}

\* a text wrapped in a pair of double quotes, and surrounded by whitespace
Quoted(x) == <<QUOTE>> \o x \o <<QUOTE>>
Spaced(x) == <<" ">> \o x \o <<"\n">>

\* a text as it is, quoted once or twice, spaced, or quoted and then spaced
Wrappings(x) == {x, Quoted(x), Quoted(Quoted(x)), Spaced(x), Spaced(Quoted(x))}

DiffInit ==
    /\ \E x \in DiffTexts, y \in DiffTexts :
         \E w \in Wrappings(y) :
            \/ original = x /\ revised = w
            \/ original = w /\ revised = x
    /\ cleaned = [original |-> <<>>, revised |-> <<>>]
    /\ highlighted = [deleted |-> <<>>, inserted |-> <<>>]
    /\ diff_pc = "call"
    /\ ConvIdle /\ EvalIdle /\ TaskIdle /\ ConsumersIdle /\ MainIdle /\ MdIdle /\ OrderIdle
    /\ service = "small"
    /\ requests = <<>>

HighlightCall ==
    /\ diff_pc = "call"
    /\ cleaned' = HighlightInput(original, revised)
    /\ highlighted' = highlight_differences(original, revised)
    /\ diff_pc' = "returned"
    /\ UNCHANGED <<original, revised, convVars, evalVars, service, requests, taskVars, fmtVars,
                   shadowVars, aggVars, mainVars, mdVars, orderVars>>

DiffNext == HighlightCall

SpecDiff == DiffInit /\ [][DiffNext]_vars

(***************************************************************************)
(* main of EvaluationEngine, FeedbackFormatter and ShadowingAudioGen: the   *)
(* loop that reads a line and calls the script's task handler              *)
(***************************************************************************)
\* the most lines typed
MaxInputs == 3

\* the lines typed: a task number with or without whitespace around it, two
\* digits, nothing
InputLines == {<<"1">>, <<" ", "2", " ">>, <<"4">>, <<"1", "2">>, <<>>}

\* task_number in ['1', '2', '3', '4'], for task_number = input().strip()
ValidInput(line) == strip(line) \in {<<"1">>, <<"2">>, <<"3">>, <<"4">>}

\* the task that a valid line names
TaskOf(line) == DigitVal[Head(strip(line))]

InteractiveScripts == {"EvaluationEngine", "FeedbackFormatter", "ShadowingAudioGen"}

\* what a turn of the loop of EvaluationEngine finds: the task's files, all
\* there or one of them missing, and no student file or one
MainTaskFiles ==
    {f \in TaskFileSets : Cardinality({k \in DOMAIN f : ~f[k]}) <= 1}
MainStudentFiles ==
    {<<>>, <<[path |-> <<"amy">>, content |-> <<"I", " ", "think", "\n">>]>>}

MainInit ==
    /\ script \in InteractiveScripts
    /\ stdin \in UNION {[1..k -> InputLines] : k \in 0..MaxInputs}
    /\ consumed = <<>>
    /\ handled = <<>>
    /\ disk \in {[n \in 1..NumTasks |-> f] : f \in {NoFile, PreviousFile}}
    /\ main_pc = "prompt"
    /\ task_number = 1
    /\ task_files = AllTaskFiles
    /\ student_files = <<>>
    /\ responses_file = NoFile
    /\ eng_log = <<>>
    /\ eng_pc = "idle"
    /\ service = "plain"
    /\ requests = <<>>
    /\ ConvIdle /\ EvalIdle /\ ConsumersIdle /\ DiffIdle /\ MdIdle /\ OrderIdle

\* the line read is not a task number: print "Exiting the program." and break
MainExit ==
    /\ main_pc = "prompt"
    /\ stdin # <<>>
    /\ ~ValidInput(Head(stdin))
    /\ consumed' = Append(consumed, Head(stdin))
    /\ stdin' = Tail(stdin)
    /\ main_pc' = "exited"
    /\ UNCHANGED <<handled, disk, convVars, evalVars, service, requests, taskVars, fmtVars,
                   shadowVars, aggVars, diffVars, mdVars, orderVars>>

\* EvaluationEngine.main: the line read is a task number, grade_task(task_number)
MainGrade ==
    /\ script = "EvaluationEngine"
    /\ main_pc = "prompt"
    /\ stdin # <<>>
    /\ ValidInput(Head(stdin))
    /\ consumed' = Append(consumed, Head(stdin))
    /\ stdin' = Tail(stdin)
    /\ \E files \in MainTaskFiles, students \in MainStudentFiles :
         \E replies \in [1..Len(students) -> ServiceOutcomes] :
            LET n == TaskOf(Head(stdin))
                r == grade_task(n, files, students, replies, disk[n])
            IN /\ task_number' = n
               /\ task_files' = files
               /\ student_files' = IF files.question THEN students ELSE student_files
               /\ requests' = requests \o r.sent
               /\ eng_log' = eng_log \o r.printed
               /\ eng_pc' = IF r.raised THEN "crashed" ELSE "done"
               /\ disk' = [disk EXCEPT ![n] = r.file]
               /\ responses_file' = r.file
               /\ handled' = Append(handled, [task |-> n, raised |-> r.raised,
                                              calls |-> Len(r.sent)])
               /\ main_pc' = IF r.raised THEN "crashed" ELSE "prompt"
    /\ UNCHANGED <<script, service, convVars, evalVars, fmtVars, shadowVars, aggVars,
                   diffVars, mdVars, orderVars>>

\* FeedbackFormatter.main: the line read is a task number,
\* process_responses(task_number)
MainFormat ==
    /\ script = "FeedbackFormatter"
    /\ main_pc = "prompt"
    /\ stdin # <<>>
    /\ ValidInput(Head(stdin))
    /\ consumed' = Append(consumed, Head(stdin))
    /\ stdin' = Tail(stdin)
    /\ LET n == TaskOf(Head(stdin))
           r == process_responses(disk[n])
       IN /\ task_number' = n
          /\ responses_file' = disk[n]
          /\ df' = r.df
          /\ highlighted_changes' = r.highlighted_changes
          /\ fmt_log' = fmt_log \o r.printed
          /\ fmt_saved' = r.saved
          /\ handled' = Append(handled, [task |-> n, raised |-> FALSE, calls |-> 0])
    /\ main_pc' = "prompt"
    /\ UNCHANGED <<script, task_files, student_files, eng_log, eng_pc, fmt_pc, disk, service,
                   requests, convVars, evalVars, shadowVars, aggVars, diffVars, mdVars,
                   orderVars>>

\* ShadowingAudioGen.main: the line read is a task number,
\* process_responses(task_number)
MainShadow ==
    /\ script = "ShadowingAudioGen"
    /\ main_pc = "prompt"
    /\ stdin # <<>>
    /\ ValidInput(Head(stdin))
    /\ consumed' = Append(consumed, Head(stdin))
    /\ stdin' = Tail(stdin)
    /\ \E gender_file \in GenderFiles :
         LET n == TaskOf(Head(stdin))
             r == shadow_process_responses(disk[n], gender_file)
         IN /\ task_number' = n
            /\ responses_file' = disk[n]
            /\ audio_requests' = audio_requests \o r.audio
            /\ shadow_log' = shadow_log \o r.printed
            /\ handled' = Append(handled, [task |-> n, raised |-> FALSE,
                                           calls |-> Len(r.audio)])
    /\ main_pc' = "prompt"
    /\ UNCHANGED <<script, task_files, student_files, eng_log, eng_pc, shadow_pc, disk,
                   service, requests, convVars, evalVars, fmtVars, aggVars, diffVars, mdVars,
                   orderVars>>

MainNext == MainExit \/ MainGrade \/ MainFormat \/ MainShadow

SpecMain == MainInit /\ [][MainNext]_vars

(***************************************************************************)
(* mdMaker.main                                                            *)
(***************************************************************************)
\* what is typed for the TPO number and for the class name
TpoInputs == {<<>>, <<" ">>, <<"TPO", "40">>, <<"tpo", "40", " ">>, <<"40">>}
ClassInputs == {<<" ">>, <<"class2027">>}

\* the files of task t that may be on disk: a question file is missing, empty
\* or holds a text; only the files that some task requires are tried
MdFileSets(t) ==
    [question : {"missing", "empty", "text"},
     reading : IF t \in {2, 3} THEN BOOLEAN ELSE {FALSE},
     listening : IF t \in {2, 3, 4} THEN BOOLEAN ELSE {FALSE}]

\* required_files of detect_available_tasks
required_files(t) ==
    <<"question">> \o (IF t \in {2, 3} THEN <<"reading", "listening">>
                       ELSE IF t = 4 THEN <<"listening">> ELSE <<>>)

\* os.path.exists of a file of task t
FileExists(t, kind) ==
    IF kind = "question" THEN md_files[t].question # "missing" ELSE md_files[t][kind]

RECURSIVE Select(_, _, _)
Select(s, t, kinds) ==
    IF kinds = <<>> THEN s
    ELSE Select(IF FileExists(t, Head(kinds)) THEN s ELSE Append(s, Head(kinds)), t,
                Tail(kinds))

\* missing_files of detect_available_tasks, for task t
missing_files(t) == Select(<<>>, t, required_files(t))

Available(t) == missing_files(t) = <<>>

\* detect_available_tasks(): (available_tasks, missing_files_report)
detect_available_tasks ==
    [available_tasks |-> SelectSeq([t \in 1..NumTasks |-> t], Available),
     missing_files_report |->
        [t \in {u \in 1..NumTasks : ~Available(u)} |-> missing_files(t)]]

\* process_task(task_num, init_vars): False when the question read is empty or
\* the markdown file cannot be written, True when the file is saved
process_task(t, writable) ==
    IF md_files[t].question # "text" THEN [success |-> FALSE, saved |-> FALSE]
    ELSE [success |-> writable, saved |-> writable]

\* generate_summary(processed_tasks, missing_files_report): the tasks listed
\* as processed and the tasks listed under the errors, each with its files
generate_summary(processed, missing_report) ==
    [printed |-> TRUE, success |-> processed, errors |-> missing_report]

MdInit ==
    /\ md_files \in {f \in [1..NumTasks -> UNION {MdFileSets(t) : t \in 1..NumTasks}] :
                        \A t \in 1..NumTasks : f[t] \in MdFileSets(t)}
    /\ MdStart
    /\ md_pc = "start"
    /\ ConvIdle /\ EvalIdle /\ TaskIdle /\ ConsumersIdle /\ DiffIdle /\ MainIdle /\ OrderIdle
    /\ service = "small"
    /\ requests = <<>>

MdOthersUnchanged ==
    UNCHANGED <<convVars, evalVars, service, requests, taskVars, fmtVars, shadowVars, aggVars,
                diffVars, mainVars, orderVars>>

\* initialize_script(): exit(1) on an empty TPO number or class name
MdInitialize ==
    /\ md_pc = "start"
    /\ \E tpo_input \in TpoInputs, class_input \in ClassInputs :
         IF strip(tpo_input) = <<>> \/ strip(class_input) = <<>>
         THEN /\ md_pc' = "exited"
              /\ UNCHANGED init_vars
         ELSE /\ md_pc' = "detect"
              /\ init_vars' =
                   [tpo_number |-> IF Head(strip(tpo_input)) \in {"TPO", "tpo"}
                                   THEN Tail(strip(tpo_input)) ELSE strip(tpo_input),
                    class_name |-> strip(class_input)]
    /\ UNCHANGED <<md_files, available_tasks, missing_files_report, md_next, processed_tasks,
                   errors, md_saved, summary>>
    /\ MdOthersUnchanged

\* detect_available_tasks(), and exit(1) when no task is available
MdDetect ==
    /\ md_pc = "detect"
    /\ available_tasks' = detect_available_tasks.available_tasks
    /\ missing_files_report' = detect_available_tasks.missing_files_report
    /\ md_pc' = IF detect_available_tasks.available_tasks = <<>> THEN "exited" ELSE "process"
    /\ UNCHANGED <<md_files, init_vars, md_next, processed_tasks, errors, md_saved, summary>>
    /\ MdOthersUnchanged

\* one turn of the loop over available_tasks; the markdown file can be
\* written or not
MdProcessTask ==
    /\ md_pc = "process"
    /\ md_next <= Len(available_tasks)
    /\ \E writable \in BOOLEAN :
         LET t == available_tasks[md_next]
             r == process_task(t, writable)
         IN /\ processed_tasks' = IF r.success THEN Append(processed_tasks, t)
                                   ELSE processed_tasks
            /\ errors' = IF r.success THEN errors
                         ELSE (t :> "Failed to process the task due to previous errors.")
                              @@ errors
            /\ md_saved' = IF r.saved THEN md_saved \cup {t} ELSE md_saved
    /\ md_next' = md_next + 1
    /\ UNCHANGED <<md_files, init_vars, available_tasks, missing_files_report, summary, md_pc>>
    /\ MdOthersUnchanged

\* after the loop: the missing files join errors, and
\* generate_summary(processed_tasks, missing_files_report)
MdSummary ==
    /\ md_pc = "process"
    /\ md_next > Len(available_tasks)
    /\ errors' = errors @@ [t \in DOMAIN missing_files_report |-> "Missing files"]
    /\ summary' = generate_summary(processed_tasks, missing_files_report)
    /\ md_pc' = "done"
    /\ UNCHANGED <<md_files, init_vars, available_tasks, missing_files_report, md_next,
                   processed_tasks, md_saved>>
    /\ MdOthersUnchanged

MdNext == MdInitialize \/ MdDetect \/ MdProcessTask \/ MdSummary

SpecMarkdown == MdInit /\ [][MdNext]_vars

(***************************************************************************)
(* Properties                                                              *)
(***************************************************************************)
\* the scaled scores as the specification lists them, for raw 0, 1, ..., 16
ScaledPoints == <<0, 2, 4, 6, 8, 9, 11, 13, 15, 17, 19, 21, 23, 24, 26, 28, 30>>

HasLabel(text, label) == \E i \in 1..Len(text) : text[i] = label

Entries == responses_file.entries
EntryIndexes == 1..Len(Entries)
RowsOf(name) == {i \in 1..Len(df) : df[i].name = name}
ChangesOf(name) == {i \in 1..Len(highlighted_changes) : highlighted_changes[i].name = name}
ReportedFailed(name) ==
    \E i \in 1..Len(fmt_log) :
        fmt_log[i] = [message |-> "Failed to parse feedback", name |-> name]

\* the revised-version fields that carry the label
LabelledRevisedFields == RevisedFields \ {<<>>}

\* the whole-point rubric scores, in tenths
RubricScores == {0, 10, 20, 30, 40}

\* C1: for every integer raw score r in 0..16, given as an int or as the equal
\* float, convert_raw_to_toefl returns the r-th entry of the table
\* 0,2,4,6,8,9,11,13,15,17,19,21,23,24,26,28,30; 6 gives 11 and 16 gives 30.
C1_TableExact ==
    (conv_pc = "returned" /\ raw_score.n % RawUnit = 0 /\ raw_score.n \div RawUnit \in 0..16)
    => /\ toefl_score = Number(2 * ScaledPoints[(raw_score.n \div RawUnit) + 1])
       /\ raw_score.n = 6 * RawUnit => toefl_score = Number(2 * 11)
       /\ raw_score.n = 16 * RawUnit => toefl_score = Number(2 * 30)

C1_Witness ==
    /\ conv_pc = "returned"
    /\ raw_score = [isFloat |-> TRUE, n |-> 6 * RawUnit]
    /\ toefl_score = Number(22)

\* C2: for every non-integer raw score r, with lower = floor(r) and
\* upper = lower + 1, convert_raw_to_toefl returns the mean of the two table
\* entries when both are keys (6.5 gives 12.0), and null otherwise.
C2_FloorInterpolation ==
    (conv_pc = "returned" /\ raw_score.n % RawUnit # 0)
    => LET lower == raw_score.n \div RawUnit
           upper == lower + 1
       IN toefl_score = IF lower \in 0..16 /\ upper \in 0..16
                        THEN Number(ScaledPoints[lower + 1] + ScaledPoints[upper + 1])
                        ELSE None

\* C3: convert_raw_to_toefl returns null for every raw score above 16 and for
\* every negative raw score.
C3_OutOfDomainIsNull ==
    (conv_pc = "returned" /\ (raw_score.n < 0 \/ raw_score.n > 16 * RawUnit))
    => toefl_score = None

RECURSIVE SumOver(_, _)
SumOver(f, S) ==
    IF S = {} THEN 0
    ELSE LET x == CHOOSE y \in S : TRUE IN f[x] + SumOver(f, S \ {x})

C5_OverallMeanOrLanguageUse ==
    \A i \in EntryIndexes : \A lu \in ReplyScores, r \in LabelledRevisedFields :
        /\ \A td \in ReplyScores :
             Entries[i].feedback = Reply(ScoreField(LU, lu), ScoreField(TD, td), r)
             => /\ agg_pc = "read"
                   => /\ Entries[i].name \in DOMAIN task_scores
                      /\ task_scores[Entries[i].name] = lu + td
                /\ fmt_pc = "done"
                   => \E k \in RowsOf(Entries[i].name) : df[k].overall = lu + td
        /\ Entries[i].feedback = Reply(ScoreField(LU, lu), <<>>, r)
           => /\ agg_pc = "read"
                 => /\ Entries[i].name \in DOMAIN task_scores
                    /\ task_scores[Entries[i].name] = Half * lu
              /\ fmt_pc = "done"
                 => \E k \in RowsOf(Entries[i].name) : df[k].overall = Half * lu

\* an entry lacks one of the three bolded fields
LacksField(entry) ==
    \/ ~HasLabel(entry.feedback, LU)
    \/ ~HasLabel(entry.feedback, TD)
    \/ ~HasLabel(entry.feedback, RV)

\* an entry carries the three fields, written as the prompt asks
WellFormed(entry) ==
    \E lu \in ReplyScores, td \in ReplyScores, r \in LabelledRevisedFields :
        entry.feedback = Reply(ScoreField(LU, lu), ScoreField(TD, td), r)

\* C6: process_responses rejects a feedback that lacks the language-use
\* field, the topic-development field or the revised version: the student is
\* reported and gets no report row and no diff, and the other students of the
\* file are still processed.
C6_LackingFieldRejected ==
    (fmt_pc = "done" /\ responses_file.exists)
    => \A i \in EntryIndexes :
         /\ LacksField(Entries[i])
            => /\ ReportedFailed(Entries[i].name)
               /\ RowsOf(Entries[i].name) = {}
               /\ ChangesOf(Entries[i].name) = {}
         /\ WellFormed(Entries[i])
            => /\ Cardinality(RowsOf(Entries[i].name)) = 1
               /\ ~ReportedFailed(Entries[i].name)

C6_Witness ==
    /\ fmt_pc = "done"
    /\ Len(Entries) = 2
    /\ ~HasLabel(Entries[1].feedback, TD) /\ HasLabel(Entries[1].feedback, LU)
    /\ HasLabel(Entries[1].feedback, RV)
    /\ WellFormed(Entries[2])
    /\ Len(df) = 1 /\ df[1].name = Entries[2].name
    /\ Len(highlighted_changes) = 1
    /\ ReportedFailed(Entries[1].name)

\* C7: for every pair of rubric scores (lu, td) in 0.0, 1.0, .., 4.0 written
\* after the bolded labels of a well-formed feedback, the formatter and the
\* aggregator both recover lu and td, and the overall score is (lu + td) / 2.
C7_ScoreRoundTrip ==
    \A i \in EntryIndexes : \A lu \in RubricScores, td \in RubricScores :
        (\E r \in LabelledRevisedFields :
            Entries[i].feedback = Reply(ScoreField(LU, lu), ScoreField(TD, td), r))
        => /\ fmt_pc = "done"
              => \E k \in RowsOf(Entries[i].name) :
                    /\ df[k].language_use = lu
                    /\ df[k].topic_development = td
                    /\ Half * df[k].overall = Half * (lu + td)
           /\ agg_pc = "read"
              => /\ Entries[i].name \in DOMAIN task_scores
                 /\ task_scores[Entries[i].name] = lu + td

C7_Witness ==
    /\ fmt_pc = "done"
    /\ Len(df) = 1
    /\ Entries[1].feedback = Reply(ScoreField(LU, 40), ScoreField(TD, 30), RevisedLines)
    /\ df[1].language_use = 40 /\ df[1].topic_development = 30 /\ df[1].overall = 70

\* everything after the first label of the revised version, trimmed
AfterFirstLabel(text) ==
    LET first == Min({i \in 1..Len(text) : text[i] = RV})
    IN strip(SubSeq(text, first + 1, Len(text)))

\* C8: the revised text taken from a feedback is everything after the first
\* bolded 'Revised Version:' label up to the end of the feedback, line breaks
\* included, trimmed of surrounding whitespace.
C8_RevisedToEnd ==
    \A i \in EntryIndexes :
        HasLabel(Entries[i].feedback, RV)
        => /\ \A k \in RowsOf(Entries[i].name) :
                df[k].revised_text = AfterFirstLabel(Entries[i].feedback)
           /\ \A k \in 1..Len(audio_requests) :
                audio_requests[k].name = Entries[i].name
                => audio_requests[k].text = AfterFirstLabel(Entries[i].feedback)
           /\ extract_modified_response(Entries[i].feedback)
                = Some(AfterFirstLabel(Entries[i].feedback))
           /\ md_revised_text(Entries[i]) = Some(AfterFirstLabel(Entries[i].feedback))

C8_Witness ==
    /\ fmt_pc = "done"
    /\ Len(df) = 1
    /\ \E lu \in ReplyScores, td \in ReplyScores :
         Entries[1].feedback = Reply(ScoreField(LU, lu), ScoreField(TD, td), RevisedLines)
    /\ df[1].revised_text = <<QUOTE, "I", " ", "think", "\n", "so.", QUOTE>>

\* C9: evaluate_student_response on an empty or whitespace-only response
\* returns the fixed sentinel text and sends nothing to the service, whatever
\* the other arguments are.
C9_EmptyResponseSentinel ==
    (ev_pc # "call" /\ \A i \in 1..Len(ev_args.student_response) :
                          ev_args.student_response[i] \in Whitespace)
    => /\ ev_pc = "returned"
       /\ ev_result = Sentinel
       /\ requests = <<>>

C9_Witness ==
    /\ ev_pc = "returned"
    /\ ev_args.student_response = <<"\n", " ">>
    /\ ev_args.topic_development_rubric = "integrated"
    /\ ev_args.reading_transcript = Some(<<"text">>)
    /\ ev_result = Sentinel
    /\ requests = <<>>

\* C10: a record whose feedback lacks a required field (a score or the
\* revised version) is skipped by both consumers: no row in the task report,
\* nothing added for it in aggregation.
C10_SkippedInBothConsumers ==
    \A i \in EntryIndexes :
        LacksField(Entries[i])
        => /\ fmt_pc = "done" => RowsOf(Entries[i].name) = {}
           /\ agg_pc = "read" => Entries[i].name \notin DOMAIN task_scores

\* the student file at index i has an entry of its own in the responses file:
\* its student's name with its trimmed response
Persisted(i) ==
    /\ responses_file.exists
    /\ \E k \in EntryIndexes :
         /\ Entries[k].name = student_name(student_files[i].path)
         /\ Entries[k].original_response = strip(student_files[i].content)

\* the student file at index i was taken up by the loop of grade_task
Evaluated(i) ==
    \E k \in 1..Len(eng_log) : eng_log[k] = Evaluating(student_name(student_files[i].path))

\* grade_task ended on an exception of the service: the question file was
\* there, and the request that raised is the one of the file announced last
ServiceFailed == eng_pc = "crashed" /\ task_files.question

\* C11: when the service fails for one student's request during grade_task,
\* only that student is skipped: the remaining student files of the task
\* are still evaluated and their results are persisted.
C11_ServiceFailureSkipsOneStudent ==
    ServiceFailed
    => \A i \in 1..Len(student_files) :
         i # Len(eng_log) => Evaluated(i) /\ Persisted(i)

\* the student files whose trimmed response is not empty
NonEmptyFiles == {i \in 1..Len(student_files) : strip(student_files[i].content) # <<>>}

\* C12: after grade_task completes for a task, one service call has been
\* made for each student file whose trimmed response is non-empty and none
\* for the empty ones, and every student file found has its own entry in the
\* responses mapping: none is dropped or overwritten by another file's.
C12_OneCallAndOneEntryPerFile ==
    (eng_pc = "done" /\ student_files # <<>>)
    => /\ Len(requests) = Cardinality(NonEmptyFiles)
       /\ \A i \in NonEmptyFiles :
             \E k \in 1..Len(requests) :
                requests[k].student_response = strip(student_files[i].content)
       /\ Len(Entries) = Len(student_files)
       /\ \A i \in 1..Len(student_files) : Persisted(i)

\* C13: when a student's raw total has no conversion (convert_raw_to_toefl
\* returns None), the roster is still written, that student's scaled score is
\* null in it, and the rows of the other students are as they would be.
C13_NullScoreKeepsRoster ==
    (agg_pc \in {"saved", "crashed"} /\ \E s \in DOMAIN toefl_scores : toefl_scores[s].isNone)
    => /\ agg_pc = "saved"
       /\ roster.exists
       /\ DOMAIN roster.entries = DOMAIN raw_scores
       /\ \A s \in DOMAIN toefl_scores :
             /\ roster.entries[s].total_raw_score = raw_scores[s]
             /\ roster.entries[s].toefl_score =
                  IF toefl_scores[s].isNone THEN None
                  ELSE Number(Half * (toefl_scores[s].halves \div Half))

\* the scores from 0.0 to 4.0, in tenths
ScoreRange == Min(RubricScores)..Max(RubricScores)

\* C14: every language-use and topic-development score accepted by the
\* parser lies in 0.0..4.0, so every overall score does; a feedback carrying
\* a score outside the range, such as 9.9, yields no record with that score.
C14_AcceptedScoresInRange ==
    /\ \A k \in 1..Len(df) :
         /\ df[k].language_use \in ScoreRange
         /\ df[k].topic_development \in ScoreRange
         /\ df[k].overall \in Half * Min(RubricScores)..Half * Max(RubricScores)
    /\ \A s \in DOMAIN task_scores :
         task_scores[s] \in Half * Min(RubricScores)..Half * Max(RubricScores)

\* C15 as stated: clean_text strips the surrounding whitespace and then
\* removes exactly one layer of double quotes from the start and from the
\* end, so that a text wrapped in two layers keeps one.
C15_OneQuoteLayerRemoved ==
    diff_pc = "returned"
    => /\ cleaned.original = StripOneQuote(strip(original))
       /\ cleaned.revised = StripOneQuote(strip(revised))

\* t is s without a run of m double quotes at its start and a run of n at its end
WithoutQuoteRuns(s, t, m, n) ==
    /\ m + Len(t) + n = Len(s)
    /\ t = SubSeq(s, m + 1, m + Len(t))
    /\ \A i \in 1..Len(s) : (i <= m \/ i > m + Len(t)) => s[i] = QUOTE

\* the result of cleaning a text: the trimmed text without all the double
\* quotes it starts with and all those it ends with, and nothing else removed
CleanedFrom(text, result) ==
    /\ \E m \in 0..Len(text), n \in 0..Len(text) : WithoutQuoteRuns(strip(text), result, m, n)
    /\ result # <<>> => Head(result) # QUOTE /\ result[Len(result)] # QUOTE

\* C15: clean_text strips the surrounding whitespace and then, in one pass,
\* removes every double quote of the run the text starts with and of the run
\* it ends with: a text wrapped in two layers of quotes keeps none.  What
\* is left is not trimmed again.
C15_QuoteRunsRemoved ==
    diff_pc = "returned"
    => /\ CleanedFrom(original, cleaned.original)
       /\ CleanedFrom(revised, cleaned.revised)

C15_Witness ==
    /\ diff_pc = "returned"
    /\ original = <<QUOTE, QUOTE, "abc", QUOTE, QUOTE>>
    /\ cleaned.original = <<"abc">>
    /\ revised = <<QUOTE, " ", "abc">>
    /\ cleaned.revised = <<" ", "abc">>

\* the texts that a text is said to equal after cleaning: itself, itself in a
\* pair of double quotes, itself surrounded by whitespace, and both
SameAfterCleaning(x) == {x, Quoted(x), Spaced(x), Spaced(Quoted(x))}

NoSpans == highlighted.deleted = <<>> /\ highlighted.inserted = <<>>

\* C16: highlight_differences(x, x) marks nothing as inserted or deleted, and
\* neither does it when one side is x in a pair of double quotes and/or
\* surrounded by whitespace; with an empty original, every word of the
\* revised text is marked inserted.
C16_NoSpansWhenEqualAfterCleaning ==
    diff_pc = "returned"
    => /\ (revised \in SameAfterCleaning(original) \/ original \in SameAfterCleaning(revised))
          => NoSpans
       /\ original = <<>>
          => /\ highlighted.deleted = <<>>
             /\ highlighted.inserted = Words(cleaned.revised)

\* the names of the students of the files found
FoundNames == {student_name(student_files[i].path) : i \in 1..Len(student_files)}

\* C20: grade_task writes the responses file only after every student file of
\* the task has been evaluated, and then it writes the full mapping; when the
\* evaluation stops partway, the file is as it was before the call.
C20_WriteOnlyAfterAllEvaluated ==
    [][/\ eng_pc' = "crashed" => responses_file' = responses_file
       /\ responses_file' # responses_file
          => /\ eng_pc' = "done"
             /\ Len(eng_log') = Len(student_files)
             /\ \A i \in 1..Len(student_files) :
                   eng_log'[i] = Evaluating(student_name(student_files[i].path))
             /\ responses_file'.exists
             /\ {responses_file'.entries[k].name : k \in 1..Len(responses_file'.entries)}
                  = FoundNames]_vars

\* the service failed on the second student file, after the first was
\* evaluated, and the file of an earlier run is still there
C20_Witness ==
    /\ ServiceFailed
    /\ Len(student_files) = 2
    /\ Len(eng_log) = 2
    /\ Len(requests) = 2
    /\ responses_file = PreviousFile

\* a file that the task expects is absent: the question of any task, the
\* reading of tasks 2 and 3, the listening of tasks 2, 3 and 4
MissingExpected(task, files) ==
    \/ ~files.question
    \/ task \in {2, 3} /\ ~files.reading
    \/ task \in {2, 3, 4} /\ ~files.listening

\* the last call of the task handler
LastHandled == handled[Len(handled)]

\* C17: when a file expected for a task is absent, the missing file is
\* reported for that task, that task alone is skipped, and the run goes on
\* to the remaining tasks: a missing file never aborts the program.
C17_MissingFileSkipsTask ==
    (script = "EvaluationEngine" /\ handled # <<>> /\ MissingExpected(task_number, task_files))
    => /\ ~LastHandled.raised
       /\ main_pc # "crashed"
       /\ LastHandled.calls = 0
       /\ \E k \in 1..Len(eng_log) : eng_log[k].message = "Missing files"

\* the lines read that name a task
ValidConsumed == {k \in 1..Len(consumed) : ValidInput(consumed[k])}

\* C19: the main loop of each interactive script processes the task and
\* prompts again for as long as the trimmed line read is one of 1, 2, 3, 4, and
\* ends on the first line that is not, without processing anything for it.
C19_LoopUntilFirstOtherInput ==
    /\ \A k \in 1..Len(consumed) - 1 : ValidInput(consumed[k])
    /\ Len(handled) = Cardinality(ValidConsumed)
    /\ \A k \in 1..Len(handled) : handled[k].task = TaskOf(consumed[k])
    /\ main_pc = "exited" <=> (consumed # <<>> /\ ~ValidInput(consumed[Len(consumed)]))
    /\ (consumed = <<>> \/ ValidInput(consumed[Len(consumed)])) => main_pc = "prompt"

\* C18: at the end of a markdown-generation run every task 1..4 is accounted
\* for in the printed summary, as successfully processed or as skipped with
\* its reason: no task that failed during processing is left out of both.
C18_EveryTaskInSummary ==
    md_pc = "done"
    => /\ summary.printed
       /\ \A t \in 1..NumTasks :
             \/ \E k \in 1..Len(summary.success) : summary.success[k] = t
             \/ t \in DOMAIN summary.errors

\* C21: the raw totals and the scaled scores of every student are the same
\* for every order of the task files and every order of the student records
\* inside each file.
C21_SameForEveryOrder ==
    order_pc = "both" => other_scores = given_scores

\* C22: the scaled score of every student in the roster is
\* convert_raw_to_toefl of the student's raw total, 6.5 giving 12 and 4.5
\* giving 8.5: writing the roster does not change the converted value.
C22_RosterKeepsConverted ==
    agg_pc = "saved"
    => \A s \in DOMAIN roster.entries :
         roster.entries[s].toefl_score
           = convert_raw_to_toefl([isFloat |-> TRUE, n |-> roster.entries[s].total_raw_score])

\* half a point, in twentieths
HalfPoint == RawUnit \div Half

\* C23: every overall score the parser produces, in the report rows and in
\* the task scores, is a multiple of 0.5, so that a raw total ends in .0 or
\* .5 and the interpolation only meets midpoints between two table keys.
C23_OverallMultipleOfHalf ==
    /\ \A k \in 1..Len(df) : df[k].overall % HalfPoint = 0
    /\ \A s \in DOMAIN task_scores : task_scores[s] % HalfPoint = 0

\* the fields the formatter does not find in an entry
FmtMissing(entry) ==
    {f \in {"language_use", "topic_development", "revised"} : ~FmtMatches(entry)[f].matched}

\* the scores the aggregator does not find in an entry
AggMissing(entry) ==
    {label \in {LU, TD} : ~search_score(label, entry.feedback).matched}

\* what a log says about a student
MessagesOf(log, name) == {log[k].message : k \in {l \in 1..Len(log) : log[l].name = name}}

\* C24: a feedback rejected by the formatter or by the aggregator is
\* reported with the fields it lacks, all of them and not only the first:
\* two students lacking different fields are not reported with the same words.
C24_FailureTellsMissingFields ==
    /\ (fmt_pc = "done" /\ responses_file.exists)
       => \A i, j \in EntryIndexes :
            (FmtMissing(Entries[i]) # {} /\ FmtMissing(Entries[j]) # {}
             /\ FmtMissing(Entries[i]) # FmtMissing(Entries[j]))
            => /\ MessagesOf(fmt_log, Entries[i].name) # {}
               /\ MessagesOf(fmt_log, Entries[i].name) # MessagesOf(fmt_log, Entries[j].name)
    /\ agg_pc = "read"
       => \A i, j \in EntryIndexes :
            (AggMissing(Entries[i]) # {} /\ AggMissing(Entries[j]) # {}
             /\ AggMissing(Entries[i]) # AggMissing(Entries[j]))
            => /\ MessagesOf(agg_log, Entries[i].name) # {}
               /\ MessagesOf(agg_log, Entries[i].name) # MessagesOf(agg_log, Entries[j].name)

\* C25: every request grade_task sends carries the independent-task
\* topic-development rubric when the task is 1 and the integrated-task rubric
\* when it is 2, 3 or 4, and is built from the prompt that asks for the
\* topic-development score: the language-use-only prompt is never sent.
C25_RubricByTask ==
    \A k \in 1..Len(requests) :
        /\ requests[k].topic_development_rubric
             = (IF task_number = 1 THEN "independent" ELSE "integrated")
        /\ requests[k].language_use_rubric = "language_use"
        /\ requests[k].variant = "language_use_and_topic_development"

C25_Witness ==
    /\ eng_pc = "done"
    /\ task_number = 1
    /\ Len(requests) = 2
    /\ requests[2].topic_development_rubric = "independent"
    /\ requests[2].variant = "language_use_and_topic_development"

\* C26: a request of grade_task carries a reading transcript only for tasks
\* 2 and 3 and a listening transcript only for tasks 2, 3 and 4: none for
\* task 1, whatever files of task 1 exist, and no reading for task 4.
C26_TranscriptsByTask ==
    \A k \in 1..Len(requests) :
        /\ requests[k].reading.some => task_number \in {2, 3}
        /\ requests[k].listening.some => task_number \in {2, 3, 4}

\* task 1 with a reading and a listening file: the request has neither
C26_Witness ==
    /\ eng_pc = "done"
    /\ task_number = 1
    /\ task_files.reading /\ task_files.listening
    /\ Len(requests) = 1
    /\ ~requests[1].reading.some /\ ~requests[1].listening.some

\* C27: when no student file matches for the task selected, grade_task
\* reports it, sends nothing to the service, leaves the responses file as it
\* was, absent or written by an earlier run, and returns to the prompt.
C27_NoStudentFilesReported ==
    (eng_pc # "prompt" /\ student_files = <<>>)
    => /\ eng_pc = "done"
       /\ eng_log = <<NoStudentFiles>>
       /\ requests = <<>>
       /\ responses_file \in {NoFile, PreviousFile}

\* C28: an empty response gets no score.  Its feedback is the sentinel, which
\* has none of the three fields; the formatter makes no report row for the
\* student and the aggregator no task score, rather than a score of 0.
C28_EmptyResponseUnscored ==
    responses_file.exists
    => \A i \in EntryIndexes :
         Entries[i].original_response = <<>>
         => /\ Entries[i].feedback = Sentinel
            /\ FmtMissing(Entries[i]) = {"language_use", "topic_development", "revised"}
            /\ fmt_pc = "done" => RowsOf(Entries[i].name) = {}
            /\ agg_pc = "read" => Entries[i].name \notin DOMAIN task_scores

\* amy's file holds only whitespace, bob's is scored: bob alone has a task score
C28_Witness ==
    /\ agg_pc = "read"
    /\ Len(student_files) = 2
    /\ strip(student_files[1].content) = <<>>
    /\ student_files[1].content # <<>>
    /\ Len(Entries) = 2
    /\ Entries[1].original_response = <<>>
    /\ DOMAIN task_scores = {Entries[2].name}

\* the raw scores 0, 0.5, 1, .., 16, in twentieths
HalfSteps == {k * HalfPoint : k \in 0..(Half * 16)}

\* C29: on the raw scores 0, 0.5, 1, .., 16 convert_raw_to_toefl returns a
\* number, between 0 and 30, and never a lower one for a higher raw score.
C29_DefinedAndMonotone ==
    (conv_pc = "returned" /\ raw_score.n \in HalfSteps)
    => /\ ~toefl_score.isNone
       /\ toefl_score.halves \in 0..(Half * 30)
       /\ \A lower \in RawInputs :
             (lower.n \in HalfSteps /\ lower.n <= raw_score.n)
             => /\ ~convert_raw_to_toefl(lower).isNone
                /\ convert_raw_to_toefl(lower).halves <= toefl_score.halves

\* 4.5 gives 8.5, between the 8 of 4 and the 9 of 5
C29_Witness ==
    /\ conv_pc = "returned"
    /\ raw_score = [isFloat |-> TRUE, n |-> 4 * RawUnit + HalfPoint]
    /\ toefl_score = Number(17)

\* C30: clean_text is idempotent: cleaning a cleaned text changes nothing, a
\* cleaned text having no whitespace and no double quote left at either end,
\* also when whitespace stands between the quotes and the content.
C30_CleanTextIdempotent ==
    diff_pc = "returned"
    => /\ clean_text(cleaned.original) = cleaned.original
       /\ clean_text(cleaned.revised) = cleaned.revised

====
